---- MODULE Spec2Model ----
(***************************************************************************)
(* State-machine model of the `juju bundle` plugin                         *)
(* (src/plugins/src/juju_bundle.rs): the deploy, remove, publish and       *)
(* promote subcommands, their parallel fan-out (rayon par_iter collected   *)
(* into a Result) and the external calls they sequence.                    *)
(*                                                                         *)
(* Application names are 1..MaxApps and every bundle holds MaxApps          *)
(* applications.  The number of a name is also its position in the         *)
(* iteration order of the bundle's application map, an order the program   *)
(* does not choose; Init draws every combination of fields for every name, *)
(* so fixing that order loses no behaviour.                                *)
(*                                                                         *)
(* Each subcommand has its own specification (SpecDeploy, SpecPublish,     *)
(* SpecPromote) over the same variables.  Every external call (file and    *)
(* store access, build, subprocess) succeeds or fails nondeterministically.*)
(* A parallel iterator collected into a Result lets running items finish,  *)
(* keeps one of the errors returned and stops handing out items once an    *)
(* error was seen; which items had started by then is not determined.      *)
(***************************************************************************)
EXTENDS Integers, FiniteSets, Sequences, TLC

\* ------------------------------------------------------------------ bounds
MaxApps == 2
MaxRev == 2

VARIABLES
    cmd,          \* the subcommand main() dispatched to
    cfg,          \* its parsed CLI configuration (never changes)
    manifest,     \* the bundle as stored in the manifest file / the store
    metadata,     \* per application: resources its charm source's metadata declares
    bundle,       \* the `bundle` local of the running subcommand
    applications, \* deploy: the `applications` local (selected subset)
    pc,           \* position of the subcommand's main thread
    task,         \* per application: state of its parallel/serial task
    mapped,       \* per application: the value its finished task produced
    revs,         \* publish: per application, the revision its push returned
    errs,         \* errors returned by tasks so far (candidates for the saved error)
    rpc,          \* position inside remove()
    rnames,       \* remove(): the names app_subset selected
    ridx,         \* remove(): next name of the selection to remove
    idx,          \* promote(): next application of the loop
    ext,          \* external calls made so far (counters per call kind)
    saved,        \* bundle written by Bundle::save (deploy temp file, publish temp dir)
    result        \* what the subcommand returned

vars == <<cmd, cfg, manifest, metadata, bundle, applications, pc, task, mapped, revs, errs,
          rpc, rnames, ridx, idx, ext, saved, result>>

\* ------------------------------------------------------------------- data
AppNames == 1..MaxApps
\* a name that is no key of the bundle (used in --app requests)
Unknown == MaxApps + 1

\* Option<CharmURL> and Option<String>: uniform pairs so that values compare
None == <<"none", 0>>
StoreURL == <<"cs", 0>>                 \* a charm store URL without revision
SourceDir == <<"src", 0>>               \* a source locator
LocalCharm(name) == <<"local", name>>   \* CharmURL::from_path(build_dir/<charm name>)
\* revision.parse(): the store URL carrying the revision that push returned
ParseRevision(rev) == <<"cs", rev>>
Revisions == 1..MaxRev

CharmOpts == {None, StoreURL}
SourceOpts == {None, SourceDir}

\* resource maps: an application's `resources` (name -> upstream source) and
\* the resources of a charm's metadata, whose upstream_source is an Option
\* ("absent" stands for its None)
ResourceNames == {"X", "Y"}
ResourceMaps == UNION {[S -> {"explicit"}] : S \in SUBSET ResourceNames}
MetaMaps == [ResourceNames -> {"built", "absent"}]
NoResources == [r \in {} |-> "explicit"]
DefaultResources == [r \in {"X"} |-> "explicit"]
DefaultMeta == [r \in ResourceNames |-> "built"]

Apps == [charm : CharmOpts, source : SourceOpts, resources : {DefaultResources}]
NoApp == [charm |-> None, source |-> None, resources |-> NoResources]

\* strings over application-name characters and ':': an application name is
\* the one-character string <<n>>, an endpoint `name` or `name:interface`
Colon == 0
Key(n) == <<n>>
Interfaces == {1}
Endpoints ==
    {Key(n) : n \in AppNames} \cup
    {<<n, Colon, i>> : n \in AppNames, i \in Interfaces}
Relations == {<<a, b>> : a \in Endpoints, b \in Endpoints}
\* the relations of the bundles of the subcommand specifications:
\* `1 - <last>:1` and `1:1 - 1`
DefaultRelations ==
    << <<Key(1), <<MaxApps, Colon, 1>>>>, <<<<1, Colon, 1>>, Key(1)>> >>

\* a bundle value: its name-keyed application map and its list of relations
AppMaps == [AppNames -> Apps]
NoApps == [n \in {} |-> NoApp]
Bundles == [applications : AppMaps, relations : {DefaultRelations}]
NoBundle == [applications |-> NoApps, relations |-> <<>>]

NoErr == [kind |-> "none", app |-> 0]
Err(kind, name) == [kind |-> kind, app |-> name]
Running == [st |-> "running", err |-> NoErr]
Ok == [st |-> "ok", err |-> NoErr]
Failed(e) == [st |-> "err", err |-> e]

NoCalls ==
    [ load_source |-> [n \in AppNames |-> 0],
      build |-> [n \in AppNames |-> 0],
      push |-> [n \in AppNames |-> 0],
      promote |-> [n \in AppNames |-> 0],
      push_rev |-> [n \in AppNames |-> 0],
      promote_rev |-> [n \in AppNames |-> 0],
      release |-> [n \in AppNames |-> 0],
      release_status |-> [n \in AppNames |-> "none"],
      release_channel |-> [n \in AppNames |-> "none"],
      bundle_url |-> "none", bundle_channel |-> "none",
      remove |-> [n \in AppNames |-> 0],
      remove_status |-> [n \in AppNames |-> "none"],
      prune |-> 0, login |-> 0, load |-> 0,
      upgrade |-> 0, wait |-> 0, wait_status |-> "none", deploy |-> 0,
      bundle_push |-> 0, bundle_release |-> 0 ]

\* one more call of kind k for application n
CallApp(e, k, n) == [e EXCEPT ![k][n] = @ + 1]
\* one more call of kind k
Call(e, k) == [e EXCEPT ![k] = @ + 1]

Restrict(f, S) == [n \in S |-> f[n]]

\* --------------------------------------------------------------- configs
DefaultCfg ==
    [ build |-> FALSE, upgrade_charms |-> FALSE, recreate |-> FALSE, wait |-> 0,
      apps |-> {}, serial |-> FALSE, prune |-> FALSE, excluded |-> {} ]

Requests == SUBSET (AppNames \cup {Unknown})

InitCommon ==
    /\ bundle = NoBundle
    /\ applications = NoApps
    /\ task = [n \in AppNames |-> "none"]
    /\ mapped = [n \in AppNames |-> NoApp]
    /\ revs = [n \in AppNames |-> 0]
    /\ errs = {}
    /\ rnames = {}
    /\ ridx = 1
    /\ idx = 1
    /\ ext = NoCalls
    /\ saved = NoBundle
    /\ result = Running

\* ------------------------------------------------------------- selection
\* Bundle::app_subset: all applications for an empty request, the named ones
\* otherwise; an error when a requested name is no key of the bundle.
SubsetFails(b, names) == \E n \in names : n \notin DOMAIN b.applications
AppSubset(b, names) ==
    IF names = {} THEN b.applications ELSE Restrict(b.applications, names)

\* variant: the request is not passed on
RequestedSubsetAll(b, c) == b.applications

\* the call bundle.app_subset(c.apps) of deploy (line 143) and remove (line 271)
RequestedSubset(b, c) == AppSubset(b, c.apps)

\* ------------------------------------------------------ relation filter
Min(S) == CHOOSE x \in S : \A y \in S : x <= y
Max(S) == CHOOSE x \in S : \A y \in S : x >= y
Colons(s) == {i \in 1..Len(s) : s[i] = Colon}

\* variant: the text after the last ':' is taken
SplitLast(s) == IF Colons(s) = {} THEN s ELSE SubSeq(s, Max(Colons(s)) + 1, Len(s))

\* r.split(':').next().unwrap(): the text before the first ':'
SplitFirst(s) == IF Colons(s) = {} THEN s ELSE SubSeq(s, 1, Min(Colons(s)) - 1)

\* the closure of filter(): the endpoints' application names are a subset
\* of the keys of `applications`
RelationKept(rel, names) ==
    {SplitFirst(rel[i]) : i \in 1..Len(rel)} \subseteq {Key(n) : n \in names}

\* bundle.relations.into_iter().filter(..).collect() (lines 152-163)
FilterRelations(rels, names) == SelectSeq(rels, LAMBDA rel : RelationKept(rel, names))

\* -------------------------------------------------------- resource merge
\* variant: the build-derived upstream source replaces a declared one
MergeResourcesOverwrite(declared, meta) ==
    [r \in DOMAIN declared \cup {m \in DOMAIN meta : meta[m] # "absent"} |->
        IF r \in DOMAIN meta /\ meta[r] # "absent" THEN meta[r] ELSE declared[r]]

\* the loop over charm.metadata.resources with entry(name).or_insert(source)
\* (lines 202-206)
MergeResources(declared, meta) ==
    [r \in DOMAIN declared \cup {m \in DOMAIN meta : meta[m] # "absent"} |->
        IF r \in DOMAIN declared THEN declared[r] ELSE meta[r]]

\* ------------------------------------------------------- charm resolution
\* The match of deploy (lines 170-210) on (c.build, charm, source), arms in
\* source order: "keep" the charm URL, "fatal", or "build" from source.
\* variant: the charm URL is kept whenever there is one
ResolutionIgnoresBuildFlag(build, app) ==
    IF app.charm # None
    THEN "keep"
    ELSE IF app.source = None THEN "fatal" ELSE "build"

Resolution(build, app) ==
    IF (~build /\ app.charm # None) \/ (app.charm # None /\ app.source = None)
    THEN "keep"
    ELSE IF app.charm = None /\ app.source = None
    THEN "fatal"
    ELSE "build"

\* the new_application a successful build yields
BuiltApplication(name, app) ==
    [app EXCEPT !.charm = LocalCharm(name),
                !.resources = MergeResources(app.resources, metadata[name])]

\* variant: the build is run a second time
InvokeBuildWithRetry(e, name) == CallApp(CallApp(e, "build", name), "build", name)

\* one more invocation of charm.build for `name`
InvokeBuild(e, name) == CallApp(e, "build", name)

\* --------------------------------------------------------------- fan-out
Finished == {"ok", "err", "skipped"}
Dispatched == {n \in AppNames : task[n] # "none"}

\* variant: collect() returns as soon as one item has failed
JoinOnFirstError ==
    \/ \E n \in AppNames : task[n] = "err"
    \/ \A n \in {m \in AppNames : task[m] # "none"} : task[n] \in Finished

\* collect() of the parallel iterator returns once every item was either
\* mapped to completion or dropped by while_some after an error
JoinReady == \A n \in Dispatched : task[n] \in Finished

\* the error collect() hands back: one of those the tasks returned
SavedErrors(es) == es

\* variant: an entry for every name of the bundle
CollectedUnfiltered(m, names) == m

\* the HashMap collected from the Ok items
Collected(m, names) == Restrict(m, names)

\* ---------------------------------------------------------------- remove
AfterRemove == IF cfg.wait > 0 THEN "wait" ELSE "deploy"

\* what `?` on a failed call inside remove() returns to
RemoveFails(e) ==
    /\ result' = Failed(e)
    /\ pc' = "done"
    /\ rpc' = "done"

\* Bundle::load(c.bundle)? then bundle.app_subset(c.apps)?
RemoveLoad ==
    /\ rpc = "load"
    /\ \/ /\ RemoveFails(Err("load", 0))
          /\ UNCHANGED <<rnames, ridx, ext>>
       \/ /\ ext' = Call(ext, "load")
          /\ IF SubsetFails(manifest, cfg.apps)
             THEN /\ RemoveFails(Err("lookup", 0))
                  /\ UNCHANGED <<rnames, ridx>>
             ELSE /\ rnames' = DOMAIN RequestedSubset(manifest, cfg)
                  /\ ridx' = 1
                  /\ rpc' = "loop"
                  /\ UNCHANGED <<result, pc>>
    /\ UNCHANGED <<cmd, cfg, manifest, metadata, bundle, applications, task, mapped, revs,
                   errs, idx, saved>>

RemoveRest == {n \in rnames : n >= ridx}

\* variant: the loop starts at the last key
RemoveNextLast == CHOOSE n \in RemoveRest : \A m \in RemoveRest : n >= m

\* the next item of keys(): the first key not yet visited
RemoveNext == CHOOSE n \in RemoveRest : \A m \in RemoveRest : n <= m

\* one turn of the loop: `juju remove-application <name>`, spawn()?.wait()?;
\* the exit status of the command is not inspected
RemoveApp ==
    /\ rpc = "loop"
    /\ RemoveRest # {}
    /\ \/ /\ RemoveFails(Err("spawn", RemoveNext))
          /\ UNCHANGED <<ridx, ext>>
       \/ /\ \E status \in {"zero", "nonzero"} :
                ext' = [CallApp(ext, "remove", RemoveNext)
                          EXCEPT !.remove_status[RemoveNext] = status]
          /\ ridx' = RemoveNext + 1
          /\ UNCHANGED <<result, pc, rpc>>
    /\ UNCHANGED <<cmd, cfg, manifest, metadata, bundle, applications, task, mapped, revs,
                   errs, rnames, idx, saved>>

\* Ok(()) of remove(): back in main for `remove`, back in deploy for --recreate
RemoveReturn ==
    /\ rpc = "loop"
    /\ RemoveRest = {}
    /\ rpc' = "done"
    /\ IF cmd = "remove"
       THEN result' = Ok /\ pc' = "done"
       ELSE pc' = AfterRemove /\ UNCHANGED result
    /\ UNCHANGED <<cmd, cfg, manifest, metadata, bundle, applications, task, mapped, revs,
                   errs, rnames, ridx, idx, ext, saved>>

\* ---------------------------------------------------------------- deploy
DeployFails(e) ==
    /\ result' = Failed(e)
    /\ pc' = "done"

\* Bundle::load(c.bundle)? and bundle.app_subset(c.apps)? (lines 141-143)
DeployLoad ==
    /\ cmd = "deploy" /\ pc = "load"
    /\ \/ /\ DeployFails(Err("load", 0))
          /\ UNCHANGED <<bundle, applications, ext>>
       \/ /\ ext' = Call(ext, "load")
          /\ bundle' = manifest
          /\ IF SubsetFails(manifest, cfg.apps)
             THEN /\ DeployFails(Err("lookup", 0))
                  /\ UNCHANGED applications
             ELSE /\ applications' = RequestedSubset(manifest, cfg)
                  /\ pc' = "temp"
                  /\ UNCHANGED result
    /\ UNCHANGED <<cmd, cfg, manifest, metadata, task, mapped, revs, errs, rpc, rnames,
                   ridx, idx, saved>>

\* NamedTempFile::new()? (line 149) and the filter of the relations (lines
\* 152-163), then the tasks of par_iter are dispatched
DeployTemp ==
    /\ cmd = "deploy" /\ pc = "temp"
    /\ \/ /\ DeployFails(Err("tempfile", 0))
          /\ UNCHANGED <<task, bundle>>
       \/ /\ bundle' = [bundle EXCEPT
                            !.relations = FilterRelations(@, DOMAIN applications)]
          /\ task' = [n \in AppNames |->
                        IF n \in DOMAIN applications THEN "idle" ELSE "none"]
          /\ pc' = "resolve"
          /\ UNCHANGED result
    /\ UNCHANGED <<cmd, cfg, manifest, metadata, applications, mapped, revs, errs,
                   rpc, rnames, ridx, idx, ext, saved>>

TaskFails(n, e) ==
    /\ task' = [task EXCEPT ![n] = "err"]
    /\ errs' = errs \cup {e}

\* the closure of map() up to and including CharmSource::load (lines 167-198)
DeployTaskStart(n) ==
    /\ cmd = "deploy" /\ pc = "resolve"
    /\ task[n] = "idle"
    /\ LET app == applications[n]
           res == Resolution(cfg.build, app)
       IN  \/ /\ res = "keep"
              /\ task' = [task EXCEPT ![n] = "ok"]
              /\ mapped' = [mapped EXCEPT ![n] = app]
              /\ UNCHANGED <<errs, ext>>
           \/ /\ res = "fatal"
              /\ TaskFails(n, Err("policy", n))
              /\ UNCHANGED <<mapped, ext>>
           \/ /\ res = "build"
              /\ ext' = CallApp(ext, "load_source", n)
              /\ \/ TaskFails(n, Err("load_source", n))
                 \/ /\ task' = [task EXCEPT ![n] = "building"]
                    /\ UNCHANGED errs
              /\ UNCHANGED mapped
    /\ UNCHANGED <<cmd, cfg, manifest, metadata, bundle, applications, pc, revs, rpc,
                   rnames, ridx, idx, saved, result>>

\* charm.build(name)? and the rest of the closure (lines 200-212)
DeployTaskBuild(n) ==
    /\ cmd = "deploy" /\ pc = "resolve"
    /\ task[n] = "building"
    /\ ext' = InvokeBuild(ext, n)
    /\ \/ /\ TaskFails(n, Err("build", n))
          /\ UNCHANGED mapped
       \/ /\ task' = [task EXCEPT ![n] = "ok"]
          /\ mapped' = [mapped EXCEPT ![n] = BuiltApplication(n, applications[n])]
          /\ UNCHANGED errs
    /\ UNCHANGED <<cmd, cfg, manifest, metadata, bundle, applications, pc, revs, rpc,
                   rnames, ridx, idx, saved, result>>

\* an item not yet started when an error has been recorded is dropped:
\* collecting into a Result stops consuming items once it has seen an Err
DeployTaskSkip(n) ==
    /\ cmd = "deploy" /\ pc = "resolve"
    /\ task[n] = "idle"
    /\ errs # {}
    /\ task' = [task EXCEPT ![n] = "skipped"]
    /\ UNCHANGED <<cmd, cfg, manifest, metadata, bundle, applications, pc, mapped, revs,
                   errs, rpc, rnames, ridx, idx, ext, saved, result>>

\* variant: the upgrade-charms flag is not looked at
AfterResolveAlwaysSave(c) == "save"

\* `if c.upgrade_charms { return .. }` (lines 220-222)
AfterResolve(c) == IF c.upgrade_charms THEN "upgrade" ELSE "save"

\* collect() returns; `bundle.applications = mapped?` (lines 214-216)
DeployJoin ==
    /\ cmd = "deploy" /\ pc = "resolve"
    /\ JoinReady
    /\ IF errs # {}
       THEN /\ \E e \in SavedErrors(errs) : DeployFails(e)
            /\ UNCHANGED bundle
       ELSE /\ bundle' = [bundle EXCEPT
                            !.applications = Collected(mapped, DOMAIN applications)]
            /\ pc' = AfterResolve(cfg)
            /\ UNCHANGED result
    /\ UNCHANGED <<cmd, cfg, manifest, metadata, applications, task, mapped, revs, errs,
                   rpc, rnames, ridx, idx, ext, saved>>

\* `return Ok(bundle.upgrade_charms()?)` (lines 220-222)
DeployUpgrade ==
    /\ cmd = "deploy" /\ pc = "upgrade"
    /\ ext' = Call(ext, "upgrade")
    /\ pc' = "done"
    /\ \/ result' = Failed(Err("upgrade", 0))
       \/ result' = Ok
    /\ UNCHANGED <<cmd, cfg, manifest, metadata, bundle, applications, task, mapped, revs,
                   errs, rpc, rnames, ridx, idx, saved>>

\* bundle.save(temp_bundle.path())? and the entry into remove() (lines 224-232)
DeploySave ==
    /\ cmd = "deploy" /\ pc = "save"
    /\ \/ /\ DeployFails(Err("save", 0))
          /\ UNCHANGED <<saved, rpc>>
       \/ /\ saved' = bundle
          /\ IF cfg.recreate
             THEN pc' = "remove" /\ rpc' = "load"
             ELSE pc' = AfterRemove /\ UNCHANGED rpc
          /\ UNCHANGED result
    /\ UNCHANGED <<cmd, cfg, manifest, metadata, bundle, applications, task, mapped, revs,
                   errs, rnames, ridx, idx, ext>>

\* variant: the exit status of the wait is not looked at
WaitUnchecked(status) ==
    /\ pc' = "deploy"
    /\ UNCHANGED result

\* `if !exit_status.success() { return Err(..) }` (lines 242-247)
WaitChecked(status) ==
    IF status = "zero"
    THEN /\ pc' = "deploy"
         /\ UNCHANGED result
    ELSE DeployFails(Err("wait", 0))

\* `juju wait -wv -t <wait>` (lines 234-248)
DeployWait ==
    /\ cmd = "deploy" /\ pc = "wait"
    /\ \/ /\ DeployFails(Err("spawn", 0))
          /\ UNCHANGED ext
       \/ \E status \in {"zero", "nonzero"} :
             /\ ext' = [Call(ext, "wait") EXCEPT !.wait_status = status]
             /\ WaitChecked(status)
    /\ UNCHANGED <<cmd, cfg, manifest, metadata, bundle, applications, task, mapped, revs,
                   errs, rpc, rnames, ridx, idx, saved>>

\* `juju deploy <temp bundle> <deploy-args>` (lines 250-265)
DeployCall ==
    /\ cmd = "deploy" /\ pc = "deploy"
    /\ pc' = "done"
    /\ \/ /\ result' = Failed(Err("spawn", 0))
          /\ UNCHANGED ext
       \/ /\ ext' = Call(ext, "deploy")
          /\ \/ result' = Failed(Err("deploy", 0))
             \/ result' = Ok
    /\ UNCHANGED <<cmd, cfg, manifest, metadata, bundle, applications, task, mapped, revs,
                   errs, rpc, rnames, ridx, idx, saved>>

DeployConfigs ==
    { [DefaultCfg EXCEPT !.build = b, !.upgrade_charms = u, !.recreate = r,
                         !.wait = w, !.apps = a] :
        b \in BOOLEAN, u \in BOOLEAN, r \in BOOLEAN, w \in {0, 60}, a \in Requests }

InitDeploy ==
    /\ InitCommon
    /\ manifest \in Bundles
    /\ metadata = [n \in AppNames |-> DefaultMeta]
    /\ cmd = "deploy"
    /\ cfg \in DeployConfigs
    /\ pc = "load"
    /\ rpc = "idle"

NextDeploy ==
    \/ DeployLoad
    \/ DeployTemp
    \/ \E n \in AppNames : DeployTaskStart(n)
    \/ \E n \in AppNames : DeployTaskBuild(n)
    \/ \E n \in AppNames : DeployTaskSkip(n)
    \/ DeployJoin
    \/ DeployUpgrade
    \/ DeploySave
    \/ RemoveLoad
    \/ RemoveApp
    \/ RemoveReturn
    \/ DeployWait
    \/ DeployCall

SpecDeploy == InitDeploy /\ [][NextDeploy]_vars

\* --------------------------------------------------------------- publish
\* variant: no flag check
PublishValidAlways(c) == TRUE

\* the flag check that opens publish (lines 282-286)
PublishValid(c) == ~(c.prune /\ ~c.serial)

\* variant: one of charm and source is enough
EligibleWithEither(app) == app.charm # None \/ app.source # None

\* the filter_map predicate (line 301)
Eligible(app) == app.charm # None /\ app.source # None

\* the `apps` local: names of the applications that pass the filter
PublishApps(b) == {n \in DOMAIN b.applications : Eligible(b.applications[n])}

\* the `revisions` local once collected: (name, rev_url) of every Ok item
PublishRevisions(t, r) == {<<n, r[n]>> : n \in {m \in AppNames : t[m] = "ok"}}

PinLookupFails(b, rs) == \E p \in rs : p[1] \notin DOMAIN b.applications

\* variant: every published application gets the lowest revision returned
PinFirstRevision(b, rs) ==
    [b EXCEPT !.applications =
        [n \in DOMAIN b.applications |->
            IF \E p \in rs : p[1] = n
            THEN [b.applications[n] EXCEPT
                    !.charm = ParseRevision(
                        CHOOSE r \in {p[2] : p \in rs} :
                            \A q \in {p[2] : p \in rs} : r <= q)]
            ELSE b.applications[n]]]

\* the loop over `revisions?` on the clone of the bundle (lines 363-372)
Pin(b, rs) ==
    [b EXCEPT !.applications =
        [n \in DOMAIN b.applications |->
            IF \E p \in rs : p[1] = n
            THEN [b.applications[n] EXCEPT
                    !.charm = ParseRevision((CHOOSE p \in rs : p[1] = n)[2])]
            ELSE b.applications[n]]]

PublishFails(e) ==
    /\ result' = Failed(e)
    /\ pc' = "done"

\* the flag check and Bundle::load(path)? (lines 282-288)
PublishStart ==
    /\ cmd = "publish" /\ pc = "start"
    /\ IF ~PublishValid(cfg)
       THEN /\ PublishFails(Err("config", 0))
            /\ UNCHANGED <<bundle, ext>>
       ELSE \/ /\ PublishFails(Err("load", 0))
               /\ UNCHANGED <<bundle, ext>>
            \/ /\ ext' = Call(ext, "load")
               /\ bundle' = manifest
               /\ pc' = "login"
               /\ UNCHANGED result
    /\ UNCHANGED <<cmd, cfg, manifest, metadata, applications, task, mapped, revs, errs,
                   rpc, rnames, ridx, idx, saved>>

\* run("charm", &["login"])? and the filter of the applications (lines 293-317)
PublishLogin ==
    /\ cmd = "publish" /\ pc = "login"
    /\ ext' = Call(ext, "login")
    /\ \/ /\ PublishFails(Err("login", 0))
          /\ UNCHANGED task
       \/ /\ task' = [n \in AppNames |->
                        IF n \in PublishApps(bundle) THEN "idle" ELSE "none"]
          /\ pc' = "publish"
          /\ UNCHANGED result
    /\ UNCHANGED <<cmd, cfg, manifest, metadata, bundle, applications, mapped, revs, errs,
                   rpc, rnames, ridx, idx, saved>>

\* variant: any item may start, whatever the serial flag
PublishMayStartAny(n) == task[n] = "idle"

\* serial: apps.iter() hands an item to the handler when all before it are Ok;
\* parallel: par_iter() may start any item
PublishMayStart(n) ==
    /\ task[n] = "idle"
    /\ cfg.serial => \A m \in AppNames : (m < n /\ task[m] # "none") => task[m] = "ok"

\* publish_handler up to CharmSource::load (lines 320-339)
PublishTaskLoad(n) ==
    /\ cmd = "publish" /\ pc = "publish"
    /\ PublishMayStart(n)
    /\ ext' = CallApp(ext, "load_source", n)
    /\ \/ TaskFails(n, Err("load_source", n))
       \/ /\ task' = [task EXCEPT ![n] = "loaded"]
          /\ UNCHANGED errs
    /\ UNCHANGED <<cmd, cfg, manifest, metadata, bundle, applications, pc, mapped, revs,
                   rpc, rnames, ridx, idx, saved, result>>

\* charm.build(name)? (line 341)
PublishTaskBuild(n) ==
    /\ cmd = "publish" /\ pc = "publish"
    /\ task[n] = "loaded"
    /\ ext' = InvokeBuild(ext, n)
    /\ \/ TaskFails(n, Err("build", n))
       \/ /\ task' = [task EXCEPT ![n] = "built"]
          /\ UNCHANGED errs
    /\ UNCHANGED <<cmd, cfg, manifest, metadata, bundle, applications, pc, mapped, revs,
                   rpc, rnames, ridx, idx, saved, result>>

\* let rev_url = charm.push(&cs_url, &app.resources)? (line 342)
PublishTaskPush(n) ==
    /\ cmd = "publish" /\ pc = "publish"
    /\ task[n] = "built"
    /\ \/ /\ ext' = CallApp(ext, "push", n)
          /\ TaskFails(n, Err("push", n))
          /\ UNCHANGED revs
       \/ \E rev \in Revisions :
             /\ ext' = [CallApp(ext, "push", n) EXCEPT !.push_rev[n] = rev]
             /\ revs' = [revs EXCEPT ![n] = rev]
             /\ task' = [task EXCEPT ![n] = "pushed"]
             /\ UNCHANGED errs
    /\ UNCHANGED <<cmd, cfg, manifest, metadata, bundle, applications, pc, mapped,
                   rpc, rnames, ridx, idx, saved, result>>

\* variant: the cache is pruned whatever the flag
AfterPromoteAlwaysPrune(c) == "promoted"

\* `if c.prune { .. }` (line 346): the prune call is next, or the handler is done
AfterPromote(c) == IF c.prune THEN "promoted" ELSE "ok"

\* charm.promote(&rev_url, Channel::Edge)? (line 344)
PublishTaskPromote(n) ==
    /\ cmd = "publish" /\ pc = "publish"
    /\ task[n] = "pushed"
    /\ ext' = [CallApp(ext, "promote", n) EXCEPT !.promote_rev[n] = revs[n]]
    /\ \/ TaskFails(n, Err("promote", n))
       \/ /\ task' = [task EXCEPT ![n] = AfterPromote(cfg)]
          /\ UNCHANGED errs
    /\ UNCHANGED <<cmd, cfg, manifest, metadata, bundle, applications, pc, mapped, revs,
                   rpc, rnames, ridx, idx, saved, result>>

\* run("docker", &["system", "prune", "-af"])? when c.prune (lines 346-350)
PublishTaskPrune(n) ==
    /\ cmd = "publish" /\ pc = "publish"
    /\ task[n] = "promoted"
    /\ ext' = Call(ext, "prune")
    /\ \/ TaskFails(n, Err("prune", n))
       \/ /\ task' = [task EXCEPT ![n] = "ok"]
          /\ UNCHANGED errs
    /\ UNCHANGED <<cmd, cfg, manifest, metadata, bundle, applications, pc, mapped, revs,
                   rpc, rnames, ridx, idx, saved, result>>

\* parallel mode: an item not yet started when an error has been recorded is
\* dropped by the collect into a Result
PublishTaskSkip(n) ==
    /\ cmd = "publish" /\ pc = "publish"
    /\ ~cfg.serial
    /\ task[n] = "idle"
    /\ errs # {}
    /\ task' = [task EXCEPT ![n] = "skipped"]
    /\ UNCHANGED <<cmd, cfg, manifest, metadata, bundle, applications, pc, mapped, revs,
                   errs, rpc, rnames, ridx, idx, ext, saved, result>>

\* collect() returns: serial, at the first Err or after the last item;
\* parallel, when no item is running or left to start
PublishJoinReady ==
    IF cfg.serial
    THEN \/ \E n \in Dispatched : task[n] = "err"
         \/ \A n \in Dispatched : task[n] = "ok"
    ELSE \A n \in Dispatched : task[n] \in Finished

\* variant: the error of the collected revisions is dropped
RevisionsErrorIgnored ==
    /\ pc' = "pin"
    /\ UNCHANGED result

\* `revisions?` (line 366)
RevisionsChecked ==
    IF errs # {}
    THEN \E e \in SavedErrors(errs) : PublishFails(e)
    ELSE /\ pc' = "pin"
         /\ UNCHANGED result

PublishJoin ==
    /\ cmd = "publish" /\ pc = "publish"
    /\ PublishJoinReady
    /\ RevisionsChecked
    /\ UNCHANGED <<cmd, cfg, manifest, metadata, bundle, applications, task, mapped, revs,
                   errs, rpc, rnames, ridx, idx, ext, saved>>

\* the pinned clone, TempDir::new()? and new_bundle.save(..)? (lines 363-377)
PublishPin ==
    /\ cmd = "publish" /\ pc = "pin"
    /\ IF PinLookupFails(bundle, PublishRevisions(task, revs))
       THEN /\ PublishFails(Err("panic", 0))
            /\ UNCHANGED saved
       ELSE \/ /\ PublishFails(Err("tempdir", 0))
               /\ UNCHANGED saved
            \/ /\ PublishFails(Err("save", 0))
               /\ UNCHANGED saved
            \/ /\ saved' = Pin(bundle, PublishRevisions(task, revs))
               /\ pc' = "copy"
               /\ UNCHANGED result
    /\ UNCHANGED <<cmd, cfg, manifest, metadata, bundle, applications, task, mapped, revs,
                   errs, rpc, rnames, ridx, idx, ext>>

\* fs::copy(README.md)? (lines 380-383)
PublishCopy ==
    /\ cmd = "publish" /\ pc = "copy"
    /\ \/ PublishFails(Err("copy", 0))
       \/ pc' = "push" /\ UNCHANGED result
    /\ UNCHANGED <<cmd, cfg, manifest, metadata, bundle, applications, task, mapped, revs,
                   errs, rpc, rnames, ridx, idx, ext, saved>>

\* let bundle_url = bundle.push(dir, &c.cs_url)? (line 385)
PublishBundlePush ==
    /\ cmd = "publish" /\ pc = "push"
    /\ \/ /\ ext' = Call(ext, "bundle_push")
          /\ PublishFails(Err("bundle_push", 0))
       \/ /\ ext' = [Call(ext, "bundle_push") EXCEPT !.bundle_url = "pushed"]
          /\ pc' = "release"
          /\ UNCHANGED result
    /\ UNCHANGED <<cmd, cfg, manifest, metadata, bundle, applications, task, mapped, revs,
                   errs, rpc, rnames, ridx, idx, saved>>

\* bundle.release(&bundle_url, Channel::Edge)? and Ok(()) (lines 387-389)
PublishBundleRelease ==
    /\ cmd = "publish" /\ pc = "release"
    /\ ext' = [Call(ext, "bundle_release") EXCEPT !.bundle_channel = "edge"]
    /\ pc' = "done"
    /\ \/ result' = Failed(Err("bundle_release", 0))
       \/ result' = Ok
    /\ UNCHANGED <<cmd, cfg, manifest, metadata, bundle, applications, task, mapped, revs,
                   errs, rpc, rnames, ridx, idx, saved>>

PublishConfigs ==
    { [DefaultCfg EXCEPT !.serial = s, !.prune = p] : s \in BOOLEAN, p \in BOOLEAN }

InitPublish ==
    /\ InitCommon
    /\ manifest \in Bundles
    /\ metadata = [n \in AppNames |-> DefaultMeta]
    /\ cmd = "publish"
    /\ cfg \in PublishConfigs
    /\ pc = "start"
    /\ rpc = "idle"

NextPublish ==
    \/ PublishStart
    \/ PublishLogin
    \/ \E n \in AppNames : PublishTaskLoad(n)
    \/ \E n \in AppNames : PublishTaskBuild(n)
    \/ \E n \in AppNames : PublishTaskPush(n)
    \/ \E n \in AppNames : PublishTaskPromote(n)
    \/ \E n \in AppNames : PublishTaskPrune(n)
    \/ \E n \in AppNames : PublishTaskSkip(n)
    \/ PublishJoin
    \/ PublishPin
    \/ PublishCopy
    \/ PublishBundlePush
    \/ PublishBundleRelease

SpecPublish == InitPublish /\ [][NextPublish]_vars

\* --------------------------------------------------------------- promote
Channels == {"candidate", "stable"}

\* variant: skipped only when excluded and without source
PromoteSkipsBoth(c, name, app) == name \in c.excluded /\ app.source = None

\* the `continue` condition of the loop (line 399)
PromoteSkips(c, name, app) == name \in c.excluded \/ app.source = None

\* Bundle::load_from_store(&c.bundle, c.from)? (line 394)
PromoteLoad ==
    /\ cmd = "promote" /\ pc = "load"
    /\ \/ /\ result' = Failed(Err("load", 0))
          /\ pc' = "done"
          /\ UNCHANGED <<bundle, ext, idx>>
       \/ /\ ext' = Call(ext, "load")
          /\ bundle' = manifest
          /\ idx' = 1
          /\ pc' = "loop"
          /\ UNCHANGED result
    /\ UNCHANGED <<cmd, cfg, manifest, metadata, applications, task, mapped, revs, errs,
                   rpc, rnames, ridx, saved>>

\* variant: the loop goes on after a failed release
ReleaseErrorIgnored(n) ==
    /\ idx' = idx + 1
    /\ UNCHANGED <<result, pc>>

\* `?` on a failed app.release(c.to) (line 403)
ReleaseErrorReturned(n) ==
    /\ result' = Failed(Err("release", n))
    /\ pc' = "done"
    /\ UNCHANGED idx

\* one turn of the loop over &bundle.applications (lines 398-404)
PromoteApp ==
    /\ cmd = "promote" /\ pc = "loop"
    /\ idx \in DOMAIN bundle.applications
    /\ IF PromoteSkips(cfg, idx, bundle.applications[idx])
       THEN /\ idx' = idx + 1
            /\ UNCHANGED <<result, pc, ext>>
       ELSE \/ /\ ext' = [CallApp(ext, "release", idx) EXCEPT
                            !.release_status[idx] = "failed",
                            !.release_channel[idx] = cfg.to]
               /\ ReleaseErrorReturned(idx)
            \/ /\ ext' = [CallApp(ext, "release", idx) EXCEPT
                            !.release_status[idx] = "ok",
                            !.release_channel[idx] = cfg.to]
               /\ idx' = idx + 1
               /\ UNCHANGED <<result, pc>>
    /\ UNCHANGED <<cmd, cfg, manifest, metadata, bundle, applications, task, mapped, revs,
                   errs, rpc, rnames, ridx, saved>>

\* bundle.release(<bundle>-<revision>, c.to)? and Ok(()) (lines 406-410)
PromoteBundle ==
    /\ cmd = "promote" /\ pc = "loop"
    /\ idx \notin DOMAIN bundle.applications
    /\ ext' = [Call(ext, "bundle_release") EXCEPT !.bundle_channel = cfg.to]
    /\ pc' = "done"
    /\ \/ result' = Failed(Err("bundle_release", 0))
       \/ result' = Ok
    /\ UNCHANGED <<cmd, cfg, manifest, metadata, bundle, applications, task, mapped, revs,
                   errs, rpc, rnames, ridx, idx, saved>>

PromoteConfigs ==
    { [to |-> t, excluded |-> x] @@ DefaultCfg : t \in Channels, x \in Requests }

InitPromote ==
    /\ InitCommon
    /\ manifest \in Bundles
    /\ metadata = [n \in AppNames |-> DefaultMeta]
    /\ cmd = "promote"
    /\ cfg \in PromoteConfigs
    /\ pc = "load"
    /\ rpc = "idle"

NextPromote ==
    \/ PromoteLoad
    \/ PromoteApp
    \/ PromoteBundle

SpecPromote == InitPromote /\ [][NextPromote]_vars

\* ---------------------------------------------------- remove, standalone
RemoveConfigs == { [DefaultCfg EXCEPT !.apps = a] : a \in Requests }

InitRemove ==
    /\ InitCommon
    /\ manifest \in Bundles
    /\ metadata = [n \in AppNames |-> DefaultMeta]
    /\ cmd = "remove"
    /\ cfg \in RemoveConfigs
    /\ pc = "remove"
    /\ rpc = "load"

NextRemove ==
    \/ RemoveLoad
    \/ RemoveApp
    \/ RemoveReturn

SpecRemove == InitRemove /\ [][NextRemove]_vars

\* ------------------------------------- deploy up to the relation filter
\* bundles whose relation list is any list of at most two relations
FilterBundles ==
    [applications : {[n \in AppNames |-> [charm |-> StoreURL, source |-> None,
                                          resources |-> DefaultResources]]},
     relations : {<<>>} \cup {<<r>> : r \in Relations}
                        \cup {<<r, q>> : r \in Relations, q \in Relations}]

InitFilter ==
    /\ InitCommon
    /\ manifest \in FilterBundles
    /\ metadata = [n \in AppNames |-> DefaultMeta]
    /\ cmd = "deploy"
    /\ cfg \in {[DefaultCfg EXCEPT !.apps = a] : a \in Requests}
    /\ pc = "load"
    /\ rpc = "idle"

NextFilter ==
    \/ DeployLoad
    \/ DeployTemp

SpecFilter == InitFilter /\ [][NextFilter]_vars

\* ------------------------------------------- deploy and remove together
InitDeployRemove == InitDeploy \/ InitRemove

SpecDeployRemove == InitDeployRemove /\ [][NextDeploy]_vars

\* ------------------------------------------ deploy up to the resolution
\* an application is built from source or keeps its store charm; it declares
\* any of the resources, and the metadata of its source, where it has one,
\* names an upstream source, or none, for each resource
ResourceApps ==
    {[charm |-> None, source |-> SourceDir, resources |-> r] : r \in ResourceMaps}
        \cup {[charm |-> StoreURL, source |-> None, resources |-> DefaultResources]}

InitResources ==
    /\ InitCommon
    /\ manifest \in [applications : [AppNames -> ResourceApps], relations : {<<>>}]
    /\ metadata \in [AppNames -> MetaMaps]
    /\ \A n \in AppNames :
          manifest.applications[n].source = None => metadata[n] = DefaultMeta
    /\ cmd = "deploy"
    /\ cfg = DefaultCfg
    /\ pc = "load"
    /\ rpc = "idle"

NextResources ==
    \/ DeployLoad
    \/ DeployTemp
    \/ \E n \in AppNames : DeployTaskStart(n)
    \/ \E n \in AppNames : DeployTaskBuild(n)
    \/ \E n \in AppNames : DeployTaskSkip(n)
    \/ DeployJoin

SpecResources == InitResources /\ [][NextResources]_vars

\* ================================================================ claims
Selected == IF cfg.apps = {} THEN AppNames ELSE cfg.apps
HasCharm(n) == applications[n].charm # None
HasSource(n) == applications[n].source # None
KeepCase(n) == HasCharm(n) /\ (~cfg.build \/ ~HasSource(n))
FatalCase(n) == ~HasCharm(n) /\ ~HasSource(n)
BuildCase(n) == HasSource(n) /\ (cfg.build \/ ~HasCharm(n))
Resolved(n) == task[n] \in {"building", "ok", "err"}
ResolutionFailed == cmd = "deploy" /\ pc = "done" /\ errs # {}

\* C1: charm resolution in deploy follows the decision table.  For every
\* application whose task has applied the policy, exactly one of the three
\* cases of (build flag, charm, source) holds and the task took that branch:
\* keep - the task succeeds with the charm unchanged and neither the charm
\* source nor the build is touched; fatal - the task fails with the policy
\* error of that application and nothing is built; build - the charm source
\* of that application is loaded and built (the build runs once the source
\* has loaded) and a successful task's charm is the built artifact.
C1_DecisionTable ==
    \A n \in DOMAIN applications : Resolved(n) =>
        /\ Cardinality({c \in {"keep", "fatal", "build"} :
                \/ c = "keep" /\ KeepCase(n)
                \/ c = "fatal" /\ FatalCase(n)
                \/ c = "build" /\ BuildCase(n)}) = 1
        /\ KeepCase(n) =>
              /\ task[n] = "ok"
              /\ mapped[n] = applications[n]
              /\ ext.load_source[n] = 0 /\ ext.build[n] = 0
        /\ FatalCase(n) =>
              /\ task[n] = "err"
              /\ Err("policy", n) \in errs
              /\ ext.load_source[n] = 0 /\ ext.build[n] = 0
        /\ BuildCase(n) =>
              /\ Err("policy", n) \notin errs
              /\ ext.load_source[n] = 1
              /\ task[n] = "building" => ext.build[n] = 0
              /\ task[n] = "ok" =>
                    /\ ext.build[n] = 1
                    /\ mapped[n].charm = LocalCharm(n)
                    /\ mapped[n].source = applications[n].source
              /\ task[n] = "err" =>
                    \/ Err("load_source", n) \in errs /\ ext.build[n] = 0
                    \/ Err("build", n) \in errs /\ ext.build[n] = 1

\* with --build, one application kept its charm (it has no source) while
\* another, which has both charm and source, was built
C1_Witness ==
    /\ cmd = "deploy" /\ cfg.build
    /\ \E n, m \in DOMAIN applications :
          /\ KeepCase(n) /\ task[n] = "ok" /\ mapped[n].charm = StoreURL
          /\ BuildCase(m) /\ HasCharm(m) /\ task[m] = "ok"
          /\ mapped[m].charm = LocalCharm(m)

\* C2 (as stated): when deploy reports a resolution error, the task of every
\* selected application was started and ran to completion.
C2_EveryTaskRuns ==
    ResolutionFailed => \A n \in DOMAIN applications : task[n] \in {"ok", "err"}

\* C2 (amended): a failure never interrupts a task that has started: when
\* deploy reports a resolution error every selected application's task has
\* either run to completion (with its build invoked when the policy asks for
\* one and the source loaded) or was never started; a task is left unstarted
\* only after a sibling has failed.
C2_StartedTasksComplete ==
    /\ \A n \in AppNames : task[n] = "skipped" =>
          /\ errs # {}
          /\ ext.load_source[n] = 0 /\ ext.build[n] = 0
    /\ ResolutionFailed =>
          \A n \in DOMAIN applications :
             /\ task[n] \in Finished
             /\ (task[n] = "ok" /\ BuildCase(n)) => ext.build[n] = 1
             /\ (task[n] = "err" /\ BuildCase(n)) =>
                   ext.build[n] = 1 \/ Err("load_source", n) \in errs

\* deploy reported the error of one task while a sibling, started before the
\* failure, was still built to the end
C2_Witness ==
    /\ ResolutionFailed
    /\ \E n, m \in DOMAIN applications :
          /\ task[n] = "err" /\ result.err.app = n
          /\ task[m] = "ok" /\ BuildCase(m) /\ ext.build[m] = 1

\* C3: when a resolution task fails, deploy fails with one of the errors the
\* tasks returned; no build is invoked twice, every build that completed
\* stays invoked exactly once, and deploy does nothing after the failure
\* (no upgrade, save, removal, wait or deploy call).
C3_NoRetryNoRollback ==
    /\ \A n \in AppNames : ext.build[n] <= 1
    /\ ResolutionFailed =>
          /\ result.st = "err"
          /\ result.err \in errs
          /\ \A n \in DOMAIN applications :
                (task[n] = "ok" /\ BuildCase(n)) =>
                    ext.build[n] = 1 /\ mapped[n].charm = LocalCharm(n)
          /\ ext.upgrade = 0 /\ ext.wait = 0 /\ ext.deploy = 0
          /\ \A n \in AppNames : ext.remove[n] = 0
          /\ saved = NoBundle
          /\ bundle.applications = manifest.applications

\* application m was built, application n failed afterwards, deploy failed
C3_Witness ==
    /\ ResolutionFailed
    /\ \E n, m \in DOMAIN applications :
          /\ n # m
          /\ task[m] = "ok" /\ ext.build[m] = 1
          /\ task[n] = "err" /\ result.err = Err("build", n)

AllResolved ==
    /\ cmd = "deploy"
    /\ pc \in {"upgrade", "save", "remove", "wait", "deploy", "done"}
    /\ errs = {}
    /\ \A n \in DOMAIN applications : task[n] = "ok"
    /\ Dispatched # {}

\* C4: when every resolution task succeeded, the application map assigned to
\* the bundle has exactly the selected names as keys, each mapped to the
\* value its own task produced, whatever the completion order.
C4_MergedMapping ==
    AllResolved =>
        /\ DOMAIN bundle.applications = Selected
        /\ DOMAIN bundle.applications = DOMAIN applications
        /\ \A n \in Selected : bundle.applications[n] = mapped[n]

\* a proper subset was selected and both of two built applications are in
\* the merged map
C4_Witness ==
    /\ AllResolved
    /\ \E n, m \in DOMAIN bundle.applications :
          /\ n # m
          /\ bundle.applications[n].charm = LocalCharm(n)
          /\ bundle.applications[m].charm = LocalCharm(m)

PruneWithoutSerial == cmd = "publish" /\ cfg.prune /\ ~cfg.serial

\* C5: publish with prune set and serial unset fails at once with the
\* configuration error: the bundle is never loaded and no login, build, push,
\* promote, prune, bundle push or bundle release call is ever made.
C5_PruneRequiresSerial ==
    PruneWithoutSerial =>
        /\ pc \in {"start", "done"}
        /\ pc = "done" => result = Failed(Err("config", 0))
        /\ ext = NoCalls
        /\ bundle = NoBundle
        /\ saved = NoBundle
        /\ \A n \in AppNames : task[n] = "none"

\* publish --prune without --serial has returned
C5_Witness ==
    /\ PruneWithoutSerial
    /\ pc = "done"
    /\ result.st = "err"

HasBoth(n) ==
    /\ manifest.applications[n].charm # None
    /\ manifest.applications[n].source # None
Touched(n) ==
    \/ ext.load_source[n] > 0 \/ ext.build[n] > 0
    \/ ext.push[n] > 0 \/ ext.promote[n] > 0
TasksDispatched ==
    cmd = "publish" /\ pc \in {"publish", "pin", "copy", "push", "release"}

\* C6: in publish the applications that are built, pushed or promoted are
\* those of the loaded bundle with both a charm reference and a source
\* locator: exactly these get a task, an application with only one of the
\* two is never loaded, built, pushed or promoted and never the cause of an
\* error, and a publish that succeeds has built, pushed and promoted every
\* application that has both, once.
C6_PublishEligibility ==
    cmd = "publish" =>
        \A n \in AppNames :
            /\ task[n] # "none" => HasBoth(n)
            /\ Touched(n) => HasBoth(n)
            /\ TasksDispatched => (task[n] # "none" <=> HasBoth(n))
            /\ ~HasBoth(n) => result.err.app # n
            /\ (result = Ok /\ HasBoth(n)) =>
                  /\ ext.build[n] = 1
                  /\ ext.push[n] = 1
                  /\ ext.promote[n] = 1

\* a publish succeeded on a bundle holding an application with exactly one of
\* charm and source next to a published one
C6_Witness ==
    /\ cmd = "publish" /\ result = Ok
    /\ \E n, m \in AppNames :
          /\ (manifest.applications[n].charm = None)
                # (manifest.applications[n].source = None)
          /\ ~Touched(n)
          /\ HasBoth(m) /\ ext.promote[m] = 1

\* C7: in publish the bundle is pushed only after every eligible
\* application's build, push and promote succeeded, and released only after
\* the bundle push succeeded; if an eligible application's task fails,
\* publish returns the error of a failed task, the bundle is neither pushed
\* nor released, and what was pushed and promoted for siblings stays.
C7_BundleAfterCharms ==
    cmd = "publish" =>
        /\ ext.bundle_push > 0 =>
              \A n \in AppNames : HasBoth(n) =>
                  /\ task[n] = "ok"
                  /\ ext.build[n] = 1 /\ ext.push[n] = 1 /\ ext.promote[n] = 1
        /\ ext.bundle_release > 0 =>
              ext.bundle_push = 1 /\ ext.bundle_url = "pushed"
        /\ errs # {} =>
              /\ ext.bundle_push = 0 /\ ext.bundle_release = 0
              /\ saved = NoBundle
              /\ pc \in {"publish", "done"}
              /\ pc = "done" => result.st = "err" /\ result.err \in errs
              /\ \A n \in AppNames :
                    task[n] \in {"promoted", "ok"} =>
                        ext.push[n] = 1 /\ ext.promote[n] = 1

\* publish returned the error of one application after a sibling had been
\* pushed and promoted
C7_Witness ==
    /\ cmd = "publish" /\ pc = "done"
    /\ \E n, m \in AppNames :
          /\ task[n] = "err" /\ result = Failed(Err("push", n))
          /\ task[m] = "ok" /\ ext.push[m] = 1 /\ ext.promote[m] = 1

\* C8: publish pins revisions in a derived copy only.  The bundle written to
\* the temporary directory has the applications of the loaded bundle; each
\* published application's charm is the parsed revision its own push
\* returned, the rest of it and every non-eligible application are as
\* loaded; every collected (name, revision) pair names an application of the
\* bundle, so the lookup never fails; the loaded bundle stays as loaded.
C8_PinnedCopy ==
    cmd = "publish" =>
        /\ result.err.kind # "panic"
        /\ bundle \in {NoBundle, manifest}
        /\ ext.load > 0 => bundle = manifest
        /\ pc = "pin" =>
              \A p \in PublishRevisions(task, revs) :
                  /\ p[1] \in DOMAIN bundle.applications
                  /\ p[2] = ext.push_rev[p[1]]
        /\ saved # NoBundle =>
              /\ DOMAIN saved.applications = DOMAIN manifest.applications
              /\ \A n \in DOMAIN manifest.applications :
                    IF HasBoth(n)
                    THEN /\ ext.push_rev[n] \in Revisions
                         /\ saved.applications[n].charm = ParseRevision(ext.push_rev[n])
                         /\ saved.applications[n].source = manifest.applications[n].source
                    ELSE saved.applications[n] = manifest.applications[n]

\* the pinned copy was written for a bundle with a published and a
\* non-eligible application
C8_Witness ==
    /\ cmd = "publish" /\ saved # NoBundle
    /\ \E n, m \in AppNames :
          /\ HasBoth(n) /\ saved.applications[n].charm # bundle.applications[n].charm
          /\ ~HasBoth(m) /\ manifest.applications[m].charm = StoreURL

InScope(n) == n \notin cfg.excluded /\ manifest.applications[n].source # None

\* C9: promote releases the bundle only if every in-scope application was
\* released with success before; a failed release of an application ends
\* promote with that error, no later application is released and the
\* bundle is never released.
C9_BundleAfterApps ==
    cmd = "promote" =>
        /\ ext.bundle_release > 0 =>
              /\ ext.bundle_release = 1
              /\ pc = "done"
              /\ \A n \in AppNames :
                    IF InScope(n)
                    THEN ext.release[n] = 1 /\ ext.release_status[n] = "ok"
                    ELSE ext.release[n] = 0
        /\ \A n \in AppNames : ext.release_status[n] = "failed" =>
              /\ pc = "done"
              /\ result = Failed(Err("release", n))
              /\ ext.bundle_release = 0
              /\ \A m \in AppNames : m > n => ext.release[m] = 0

\* the release of an application failed while a later one was in scope
C9_Witness ==
    /\ cmd = "promote"
    /\ \E n, m \in AppNames :
          /\ n < m /\ InScope(m)
          /\ ext.release_status[n] = "failed"
          /\ result.st = "err"

PhaseOneDone ==
    /\ cmd = "promote"
    /\ ext.load > 0
    /\ idx \notin DOMAIN bundle.applications

\* C10: when no release of an application fails, the applications released
\* to the `to` channel are exactly those with a source locator that are not
\* excluded, each once; an application without source locator is never
\* released, excluded or not.
C10_PromotedSet ==
    cmd = "promote" =>
        /\ \A n \in AppNames :
              /\ ext.release[n] <= 1
              /\ manifest.applications[n].source = None => ext.release[n] = 0
              /\ ext.release[n] = 1 => ext.release_channel[n] = cfg.to
        /\ PhaseOneDone =>
              \A n \in AppNames : ext.release[n] = IF InScope(n) THEN 1 ELSE 0

\* promote succeeded; one application was released, one without source and
\* not excluded was not
C10_Witness ==
    /\ cmd = "promote" /\ result = Ok
    /\ \E n, m \in AppNames :
          /\ ext.release[n] = 1
          /\ m \notin cfg.excluded /\ ext.release[m] = 0

RemovalFailed(n) == ext.remove_status[n] = "nonzero"

\* C11: in remove, when the removal command of a selected application exits
\* non-zero, no removal is invoked for the applications after it and remove
\* returns an error.
C11_FailedRemovalAborts ==
    cmd = "remove" =>
        \A n \in AppNames : RemovalFailed(n) =>
            /\ \A m \in AppNames : m > n => ext.remove[m] = 0
            /\ pc = "done" => result.st = "err"

\* C12: in deploy with recreate, when the removal command of a selected
\* application exits non-zero, neither the stabilization wait nor the deploy
\* call is invoked and deploy returns an error.
C12_FailedRemovalStopsDeploy ==
    (cmd = "deploy" /\ cfg.recreate) =>
        \A n \in AppNames : RemovalFailed(n) =>
            /\ ext.wait = 0 /\ ext.deploy = 0
            /\ pc = "done" => result.st = "err"

TasksAllOk ==
    /\ Dispatched # {}
    /\ errs = {}
    /\ \A n \in DOMAIN applications : task[n] = "ok"

\* C13: in deploy without upgrade-charms the deploy call is invoked at most
\* once, and only after every selected application resolved, the derived
\* bundle was saved to the temporary manifest, the removal of every selected
\* application (with recreate) had been run and the stabilization wait (with
\* wait > 0) had exited zero; a non-zero wait ends deploy with the wait
\* error and without a deploy call; with wait = 0 no wait call is made.
C13_DeployCallLast ==
    (cmd = "deploy" /\ ~cfg.upgrade_charms) =>
        /\ ext.deploy <= 1 /\ ext.wait <= 1
        /\ ext.upgrade = 0
        /\ ext.deploy > 0 =>
              /\ TasksAllOk
              /\ saved # NoBundle /\ saved = bundle
              /\ DOMAIN saved.applications = Selected
              /\ IF cfg.recreate
                 THEN rpc = "done" /\ \A n \in Selected : ext.remove[n] = 1
                 ELSE rpc = "idle" /\ \A n \in AppNames : ext.remove[n] = 0
              /\ cfg.wait > 0 => ext.wait = 1 /\ ext.wait_status = "zero"
        /\ ext.wait_status = "nonzero" =>
              /\ ext.deploy = 0
              /\ pc = "done"
              /\ result = Failed(Err("wait", 0))
        /\ cfg.wait = 0 => ext.wait = 0 /\ ext.wait_status = "none"

\* deploy --recreate with a wait went through removal, wait and deploy call
C13_Witness ==
    /\ cmd = "deploy" /\ ~cfg.upgrade_charms
    /\ cfg.recreate /\ cfg.wait > 0
    /\ ext.deploy = 1 /\ ext.wait_status = "zero"
    /\ result = Ok

\* C14: in deploy with upgrade-charms nothing is saved, removed, waited for
\* or deployed, whatever recreate and wait are; the upgrade-charms
\* collaborator is invoked at most once, only when every selected
\* application resolved, and deploy then ends with its result; it is not
\* invoked when a resolution failed.
C14_UpgradeOnly ==
    (cmd = "deploy" /\ cfg.upgrade_charms) =>
        /\ saved = NoBundle
        /\ rpc = "idle"
        /\ ext.wait = 0 /\ ext.deploy = 0
        /\ \A n \in AppNames : ext.remove[n] = 0
        /\ ext.upgrade <= 1
        /\ ext.upgrade > 0 =>
              /\ TasksAllOk
              /\ pc = "done"
              /\ result \in {Ok, Failed(Err("upgrade", 0))}
        /\ errs # {} => ext.upgrade = 0
        /\ (pc = "done" /\ TasksAllOk) => ext.upgrade = 1

\* deploy --upgrade-charms --recreate with a wait ended after the upgrade
C14_Witness ==
    /\ cmd = "deploy" /\ cfg.upgrade_charms
    /\ cfg.recreate /\ cfg.wait > 0
    /\ ext.upgrade = 1
    /\ result = Ok

\* the text of an endpoint up to its first ':'
RECURSIVE EndpointName(_)
EndpointName(ep) ==
    IF ep = <<>> \/ Head(ep) = Colon
    THEN <<>>
    ELSE <<Head(ep)>> \o EndpointName(Tail(ep))
SelectedKeys == {Key(n) : n \in DOMAIN applications}
Survives(rel) == \A i \in 1..Len(rel) : EndpointName(rel[i]) \in SelectedKeys
\* the sublist of the relations of `rels` that survive, in order
RECURSIVE Survivors(_)
Survivors(rels) ==
    IF rels = <<>> THEN <<>>
    ELSE IF Survives(Head(rels))
         THEN <<Head(rels)>> \o Survivors(Tail(rels))
         ELSE Survivors(Tail(rels))
Filtered == cmd = "deploy" /\ pc = "resolve"

\* C15: after the relation filter of deploy the bundle holds, in their
\* order and unmodified, exactly the relations of the loaded bundle all of
\* whose endpoints name (up to the first ':') a selected application; a
\* relation naming an application outside the selection is dropped and that
\* is no error.
C15_RelationFilter ==
    Filtered =>
        /\ bundle.relations = Survivors(manifest.relations)
        /\ \A i \in 1..Len(manifest.relations) :
              Survives(manifest.relations[i]) <=>
                 \E j \in 1..Len(bundle.relations) :
                    bundle.relations[j] = manifest.relations[i]
        /\ result = Running
        /\ bundle.applications = manifest.applications

\* with application 1 selected alone, `1 - 1:1` survived and `1 - 2:1` was
\* dropped without an error
C15_Witness ==
    /\ Filtered
    /\ cfg.apps = {1}
    /\ manifest.relations = << <<Key(1), <<2, Colon, 1>>>>, <<Key(1), <<1, Colon, 1>>>> >>
    /\ bundle.relations = << <<Key(1), <<1, Colon, 1>>>> >>
    /\ result = Running

UnknownRequested == \E n \in cfg.apps : n \notin DOMAIN manifest.applications
OnlyLoaded == ext = Call(NoCalls, "load")

\* C16: the selector yields all applications of the bundle for an empty
\* request and exactly the named ones, as in the bundle, otherwise; it fails
\* with the lookup error iff a requested name is no application of the
\* bundle, and in deploy and in remove that failure ends the subcommand
\* when nothing but the load of the bundle has happened: no task is
\* dispatched, nothing is built, removed, saved, waited for or deployed.
C16_Selector ==
    /\ (cmd = "deploy" /\ pc \notin {"load", "done"}) =>
          /\ DOMAIN applications = Selected
          /\ \A n \in Selected : applications[n] = manifest.applications[n]
    /\ rpc = "loop" => rnames = Selected
    /\ (ext.load > 0 /\ UnknownRequested) =>
          /\ pc = "done"
          /\ result = Failed(Err("lookup", 0))
    /\ result.err.kind = "lookup" =>
          /\ UnknownRequested
          /\ OnlyLoaded
          /\ saved = NoBundle
          /\ \A n \in AppNames : task[n] = "none"
    /\ UnknownRequested =>
          /\ ext \in {NoCalls, Call(NoCalls, "load")}
          /\ applications = NoApps /\ rnames = {}

\* remove asked for application 1 and for a name the bundle does not have
C16_Witness ==
    /\ cmd = "remove"
    /\ 1 \in cfg.apps /\ UnknownRequested
    /\ result = Failed(Err("lookup", 0))

Declared(n) == manifest.applications[n].resources
WasBuilt(n) == task[n] = "ok" /\ ext.build[n] = 1

\* the resources of application n as the closure returned them
MergeHolds(n, new) ==
    /\ DOMAIN new \subseteq ResourceNames
    /\ \A r \in DOMAIN Declared(n) : r \in DOMAIN new /\ new[r] = Declared(n)[r]
    /\ \A r \in ResourceNames \ DOMAIN Declared(n) :
          IF metadata[n][r] = "absent"
          THEN r \notin DOMAIN new
          ELSE r \in DOMAIN new /\ new[r] = metadata[n][r]

\* C17: after a successful build in deploy the application's resources keep
\* every declared entry with its declared value and gain the upstream source
\* of a built resource only under a name that was not declared; a built
\* resource without an upstream source adds nothing; an application that
\* keeps its charm keeps its resources as declared, and the bundle that
\* leaves the resolution holds exactly these mappings.
C17_ResourceMerge ==
    /\ \A n \in AppNames :
          /\ WasBuilt(n) => MergeHolds(n, mapped[n].resources)
          /\ (task[n] = "ok" /\ ext.build[n] = 0) =>
                mapped[n].resources = Declared(n)
          /\ pc = "resolve" => applications[n].resources = Declared(n)
    /\ pc = "save" =>
          \A n \in AppNames :
             /\ bundle.applications[n].resources = mapped[n].resources
             /\ WasBuilt(n) => MergeHolds(n, bundle.applications[n].resources)

\* application 1 declares X, its build supplies X and Y: X stays as
\* declared and Y is gained, while application MaxApps keeps its charm
C17_Witness ==
    /\ pc = "save"
    /\ WasBuilt(1)
    /\ Declared(1) = [r \in {"X"} |-> "explicit"]
    /\ metadata[1] = [r \in ResourceNames |-> "built"]
    /\ bundle.applications[1].resources =
          [r \in ResourceNames |-> IF r = "X" THEN "explicit" ELSE "built"]
    /\ ext.build[MaxApps] = 0
    /\ bundle.applications[MaxApps].resources = Declared(MaxApps)

StepFailed(k, n) == Err(k, n) \in errs
\* the applications whose handler went past the promote call with success
PastPromote ==
    {n \in AppNames : ext.promote[n] = 1 /\ ~StepFailed("promote", n)}
AllStepsOk(n) ==
    /\ ext.load_source[n] = 1 /\ ext.build[n] = 1
    /\ ext.push[n] = 1 /\ ext.promote[n] = 1
    /\ \A k \in {"load_source", "build", "push", "promote", "prune"} :
          ~StepFailed(k, n)

\* C18: for an application of publish the calls come in the order build,
\* push, promote and, when prune is set, prune: each at most once, the push
\* only after a build that succeeded, the promote only after a push that
\* succeeded and with the revision the push returned; no prune call is made
\* when prune is unset, and with prune set only by a handler whose promote
\* succeeded; a (name, revision) pair is collected only for an application
\* all of whose steps succeeded, with the revision its push returned.
C18_StepOrder ==
    cmd = "publish" =>
        /\ \A n \in AppNames :
              /\ ext.build[n] <= 1 /\ ext.push[n] <= 1 /\ ext.promote[n] <= 1
              /\ ext.build[n] > 0 =>
                    ext.load_source[n] = 1 /\ ~StepFailed("load_source", n)
              /\ ext.push[n] > 0 =>
                    ext.build[n] = 1 /\ ~StepFailed("build", n)
              /\ ext.promote[n] > 0 =>
                    /\ ext.push[n] = 1 /\ ~StepFailed("push", n)
                    /\ ext.push_rev[n] \in Revisions
                    /\ ext.promote_rev[n] = ext.push_rev[n]
              /\ task[n] = "promoted" => cfg.prune /\ n \in PastPromote
              /\ StepFailed("prune", n) => cfg.prune /\ n \in PastPromote
        /\ ~cfg.prune => ext.prune = 0
        /\ ext.prune <= Cardinality(PastPromote)
        /\ cfg.prune =>
              ext.prune = Cardinality({n \in PastPromote : task[n] # "promoted"})
        /\ pc \in {"publish", "pin"} =>
              \A p \in PublishRevisions(task, revs) :
                  /\ AllStepsOk(p[1])
                  /\ p[2] = ext.push_rev[p[1]]

\* with prune set an application was built, pushed, promoted and followed
\* by a prune call, and its pair is collected
C18_Witness ==
    /\ cmd = "publish" /\ cfg.prune /\ pc = "pin"
    /\ \E n \in AppNames :
          /\ <<n, ext.push_rev[n]>> \in PublishRevisions(task, revs)
          /\ AllStepsOk(n)
          /\ ext.prune >= 1

Removed == {n \in AppNames : ext.remove[n] > 0}

InProgress == {n \in AppNames : task[n] \in {"loaded", "built", "pushed", "promoted"}}
Untouched(n) == ~Touched(n) /\ ext.push_rev[n] = 0 /\ ext.promote_rev[n] = 0

\* C20: with serial set publish handles the eligible applications one at a
\* time and in order: at most one handler is between its first and its last
\* step, an application is touched only when every eligible application
\* before it is finished with success, prune included, and after the first
\* failure no later application is loaded, built, pushed or promoted and no
\* further prune is made. In either mode an application is loaded, built,
\* pushed, promoted or pruned only after the one login call has succeeded.
C20_SerialOneAtATime ==
    cmd = "publish" =>
        /\ cfg.serial =>
              /\ Cardinality(InProgress) <= 1
              /\ Cardinality(errs) <= 1
              /\ \A n \in AppNames : Touched(n) =>
                    \A m \in AppNames :
                        (m < n /\ task[m] # "none") =>
                            /\ task[m] = "ok"
                            /\ cfg.prune => ext.prune >= 1
              /\ \A n \in AppNames : task[n] = "err" =>
                    /\ InProgress = {}
                    /\ \A m \in AppNames : m > n => Untouched(m)
                    /\ \A m \in AppNames : m < n => task[m] \in {"none", "ok"}
                    /\ cfg.prune =>
                          ext.prune = Cardinality({m \in AppNames :
                                          \/ task[m] = "ok"
                                          \/ m = n /\ StepFailed("prune", n)})
        /\ \A n \in AppNames : (Touched(n) \/ task[n] # "none") =>
              ext.login = 1 /\ result.err.kind # "login"
        /\ ext.prune > 0 => ext.login = 1
        /\ ext.login <= 1

\* with serial unset two handlers are between their first and last step
C20_Witness ==
    /\ cmd = "publish" /\ ~cfg.serial
    /\ ext.login = 1
    /\ \E n, m \in AppNames :
          /\ n # m
          /\ task[n] = "built" /\ task[m] = "pushed"

====
